---- MODULE Spec2Model ----
(***************************************************************************)
(* Model of src/ingestion/awc.py: the day-partitioned, deduplicating       *)
(* METAR store of AwcWeatherStationDataDownloader (construction, the       *)
(* download1 run with its decode/append loop and its flush _dump_data).    *)
(*                                                                         *)
(* Time is counted in slots; DayLen slots make one calendar day.  A        *)
(* partition file is named by its day number (the YYYYMMDD key).           *)
(***************************************************************************)
EXTENDS Integers, Sequences, FiniteSets, TLC

\* ------------------------------------------------------------------ bounds
DayLen       == 2   \* slots per calendar day
MaxDay       == 3   \* the clock covers days 1..MaxDay
MaxBatch     == 2   \* <code> elements in one response
MaxDownloads == 2   \* download1 calls in one behaviour
MaxRuns      == 2   \* process runs (store constructions) in one behaviour
Lookback     == 3   \* slots of history a response can reach back
MaxTz        == 1   \* the host's local offset from UTC is in -MaxTz..MaxTz

\* Day 0 is left below the clock's first day, so that a timestamp the local
\* offset moves before that day is still a timestamp after the epoch.
Days      == 0..MaxDay
FirstSlot == DayLen
LastSlot  == DayLen * (MaxDay + 1) - 1
Slots     == FirstSlot..LastSlot
TzOffsets == (0 - MaxTz)..MaxTz

\* ---------------------------------------------------------------- inputs
StationIds == {"KA", "KB"}

\* res.status_code: download1 goes on only when it is 200.
HttpOk      == 200
StatusCodes == {HttpOk, 503}

\* The six fields _metar_valid requires of a decoded report.
Required == {"time", "temp", "dewpt", "press", "wind_dir", "wind_speed"}

\* Station registries a run can be constructed with (the stations argument
\* of __init__): both stations, and KA alone under another name.
Registries ==
    { [s \in StationIds |-> "n1"],
      [s \in {"KA"} |-> "n2"] }

\* A raw METAR text.  The external decoder's result is a function of the
\* text: the station identifier, the observation time (a naive datetime in
\* slots) and the set of optional fields the decoder found.
RawMetars(present) ==
    [station : StationIds, time : Slots, present : present]

\* The texts a response fetched at clock value t can hold: observed no later
\* than t and no earlier than Lookback slots before it.  KA's reports come
\* complete and may lag; KB's report is the current one, complete or without
\* its wind speed.
Fetchable(t) ==
    { m \in RawMetars({Required, Required \ {"wind_speed"}}) :
        /\ m.time <= t
        /\ m.time >= t - Lookback
        /\ m.station = "KA" => m.present = Required
        /\ m.station = "KB" => m.time = t }

RECURSIVE SeqsUpTo(_, _)
SeqsUpTo(S, n) ==
    IF n = 0 THEN {<<>>}
    ELSE LET shorter == SeqsUpTo(S, n - 1)
         IN  shorter \cup { Append(q, x) : q \in { p \in shorter : Len(p) = n - 1 }, x \in S }

\* The responses the upstream can give at each clock value: up to MaxBatch
\* texts, in any order, repeats included.
BatchesAt == [t \in Slots |-> SeqsUpTo(Fetchable(t), MaxBatch)]

\* ---------------------------------------------------------------- state
VARIABLES
    now,             \* the wall clock, in slots (UTC)
    tz,              \* the host's local offset from UTC, in slots
    exists,          \* the days whose partition file exists
    files,           \* day -> the CSV rows of that day's partition file
    stations,        \* self.stations
    data,            \* self.data, the working set
    data_file_path,  \* self.data_file_path, as the day it names
    result,          \* outcome of the last operation of the run
    warning,         \* dates named by the last flush's warning ({} if none)
    response,        \* the raw texts of the last 200 response download1 got
    status,          \* status code of the last response (0 before any)
    downloads,       \* download1 calls so far
    runs,            \* constructions so far
    station_file,    \* the lines of the station registry file
    loaded,          \* what fetch_stations made of station_file
    coord,           \* a coordinate string handed to _lat or _lng
    decimal          \* what _lat or _lng made of coord

\* the registry loader's variables, which the store never touches
regvars == << station_file, loaded, coord, decimal >>

vars == << now, tz, exists, files, stations, data, data_file_path, result,
           warning, response, status, downloads, runs, regvars >>

\* ------------------------------------------------------- date conventions
\* datetime.utcnow().strftime("%Y%m%d")
UtcNowDate(t) == t \div DayLen

\* naive_datetime.timestamp(): a naive datetime is read as local time.
Timestamp(naive, offset) == naive - offset

\* datetime.fromtimestamp(ts).strftime("%Y%m%d"): the LOCAL calendar day.
FromTimestampDate(ts, offset) == (ts + offset) \div DayLen

\* ------------------------------------------------------------- CSV file
\* csv.DictWriter.writerow: every value becomes its text.
WriteRow(row) ==
    [rawmetar |-> row.rawmetar, timestamp |-> row.timestamp, name |-> row.name]

\* csv.DictReader: every value is read back as a string.
ReadRow(line) ==
    [rawmetar |-> line.rawmetar, timestamp |-> line.timestamp,
     name |-> line.name, fmt |-> "str"]

\* the rows a DictWriter writes for a list of rows, in order
WriteRows(rows) == [i \in 1..Len(rows) |-> WriteRow(rows[i])]

\* list(reader): the rows a DictReader reads from a file's lines, in order
ReadRows(lines) == [i \in 1..Len(lines) |-> ReadRow(lines[i])]

load_data_from_file(fs, path) == ReadRows(fs[path])

\* _load_data: on a missing file the code calls .touch() on a bool, which
\* raises; otherwise the file's rows.
load_data(ex, fs, path) ==
    IF path \notin ex
    THEN [raised |-> TRUE, rows |-> <<>>]
    ELSE [raised |-> FALSE, rows |-> load_data_from_file(fs, path)]

\* A writer that opens the file for appending instead of truncating it.
dump_data_in_file_Append(fs, rows, path) ==
    [fs EXCEPT ![path] = @ \o WriteRows(rows)]

\* A writer whose write is lost.
dump_data_in_file_Skip(fs, rows, path) == fs

\* _dump_data_in_file: the file is truncated and the rows written.
dump_data_in_file(fs, rows, path) ==
    [fs EXCEPT ![path] = WriteRows(rows)]

\* _ensure_data_file: the file is touched when absent; returns the new disk.
ensure_data_file(ex, fs, date) ==
    [exists |-> ex \cup {date},
     files  |-> IF date \in ex THEN fs ELSE [fs EXCEPT ![date] = <<>>],
     path   |-> date]

\* ------------------------------------------------------------ the store
RECURSIVE KeepFirst(_, _, _)
KeepFirst(rows, i, seen) ==
    IF i > Len(rows) THEN <<>>
    ELSE IF rows[i].rawmetar \in seen
         THEN KeepFirst(rows, i + 1, seen)
         ELSE <<rows[i]>> \o KeepFirst(rows, i + 1, seen \cup {rows[i].rawmetar})

\* A _deduplicate_data that drops nothing.
deduplicate_data_KeepAll(rows) == rows

\* _deduplicate_data: the first row of every rawmetar, in order.
deduplicate_data(rows) == KeepFirst(rows, 1, {})

RowDate(row, offset) == FromTimestampDate(row.timestamp, offset)

\* data_by_date[date] of _dump_data
DataByDate(rows, offset, date) ==
    SelectSeq(rows, LAMBDA r : RowDate(r, offset) = date)

DatesOf(rows, offset) == { RowDate(rows[i], offset) : i \in 1..Len(rows) }

\* sorted(dates)[0] and sorted(dates)[-1]
MinOf(S) == CHOOSE x \in S : \A y \in S : x <= y

\* A drift branch that takes the first of the sorted dates as the next date.
MaxOf_First(S) == CHOOSE x \in S : \A y \in S : x <= y

MaxOf(S) == CHOOSE x \in S : \A y \in S : x >= y

\* A flush that never warns.
drift_warning_Silent(dates) == {}

\* the dates the drift warning of _dump_data names
drift_warning(dates) == dates

\* _dump_data
dump_data(rows, path, ex, fs, offset) ==
    LET dedup == deduplicate_data(rows)
        dates == DatesOf(dedup, offset)
    IN  IF Cardinality(dates) > 1
        THEN LET previous_date == MinOf(dates)
                 e1            == ensure_data_file(ex, fs, previous_date)
                 previous_data ==
                     deduplicate_data(
                         load_data_from_file(e1.files, previous_date)
                             \o DataByDate(dedup, offset, previous_date))
                 f1            == dump_data_in_file(e1.files, previous_data, previous_date)
                 next_date     == MaxOf(dates)
                 e2            == ensure_data_file(e1.exists, f1, next_date)
                 today         == DataByDate(dedup, offset, next_date)
             IN  [data    |-> today,
                  path    |-> e2.path,
                  exists  |-> e2.exists,
                  files   |-> dump_data_in_file(e2.files, today, e2.path),
                  warning |-> drift_warning(dates)]
        ELSE [data    |-> dedup,
              path    |-> path,
              exists  |-> ex,
              files   |-> dump_data_in_file(fs, dedup, path),
              warning |-> {}]

\* ------------------------------------------------------------ decoding
\* _metar_valid
metar_valid(metar) ==
    /\ "time" \in metar.present
    /\ "temp" \in metar.present
    /\ "dewpt" \in metar.present
    /\ "press" \in metar.present
    /\ "wind_dir" \in metar.present
    /\ "wind_speed" \in metar.present

\* A _fetch_data_from_raw_metar that skips a report of an unknown station.
fetch_data_from_raw_metar_Skip(metar_raw, reg, offset) ==
    IF metar_raw.station \notin DOMAIN reg \/ ~metar_valid(metar_raw)
    THEN [kind |-> "None"]
    ELSE [kind |-> "row",
          row  |-> [rawmetar  |-> metar_raw,
                    timestamp |-> Timestamp(metar_raw.time, offset),
                    name      |-> reg[metar_raw.station],
                    fmt       |-> "obj"]]

\* _fetch_data_from_raw_metar: the station lookup comes first.
fetch_data_from_raw_metar(metar_raw, reg, offset) ==
    IF metar_raw.station \notin DOMAIN reg
    THEN [kind |-> "KeyError"]
    ELSE IF ~metar_valid(metar_raw)
         THEN [kind |-> "None"]
         ELSE [kind |-> "row",
               row  |-> [rawmetar  |-> metar_raw,
                         timestamp |-> Timestamp(metar_raw.time, offset),
                         name      |-> reg[metar_raw.station],
                         fmt       |-> "obj"]]

\* The loop of download1 over the <code> elements: rows appended so far, and
\* whether the lookup raised.
RECURSIVE DecodeAll(_, _, _, _, _)
DecodeAll(batch, i, reg, offset, acc) ==
    IF i > Len(batch) THEN [rows |-> acc, raised |-> FALSE]
    ELSE LET d == fetch_data_from_raw_metar(batch[i], reg, offset)
         IN  IF d.kind = "KeyError" THEN [rows |-> acc, raised |-> TRUE]
             ELSE IF d.kind = "None" THEN DecodeAll(batch, i + 1, reg, offset, acc)
             ELSE DecodeAll(batch, i + 1, reg, offset, Append(acc, d.row))

\* ---------------------------------------------------------------- actions
\* __init__ : a new process run builds the store at the clock's UTC day.
Construct(reg) ==
    /\ runs < MaxRuns
    /\ LET e == ensure_data_file(exists, files, UtcNowDate(now))
           l == load_data(e.exists, e.files, e.path)
       IN  /\ exists' = e.exists
           /\ files' = e.files
           /\ data_file_path' = e.path
           /\ data' = l.rows
           /\ result' = IF l.raised THEN "AttributeError" ELSE "constructed"
    /\ stations' = reg
    /\ warning' = {}
    /\ response' = <<>>
    /\ status' = 0
    /\ runs' = runs + 1
    /\ UNCHANGED << now, tz, downloads, regvars >>

\* A download1 that forgets to return on a non-200 response: it goes on to
\* the flush and reports success.
DownloadFailed_FallThrough(code) ==
    /\ result \notin {"KeyError", "AttributeError"}
    /\ downloads < MaxDownloads
    /\ code # HttpOk
    /\ LET d == dump_data(data, data_file_path, exists, files, tz)
       IN  /\ data' = d.data
           /\ data_file_path' = d.path
           /\ exists' = d.exists
           /\ files' = d.files
    /\ result' = "True"
    /\ response' = <<>>
    /\ status' = code
    /\ warning' = {}
    /\ downloads' = downloads + 1
    /\ UNCHANGED << now, tz, stations, runs, regvars >>

\* download1 with a non-200 response
DownloadFailed(code) ==
    /\ result \notin {"KeyError", "AttributeError"}
    /\ downloads < MaxDownloads
    /\ code # HttpOk
    /\ result' = "False"
    /\ response' = <<>>
    /\ status' = code
    /\ warning' = {}
    /\ downloads' = downloads + 1
    /\ UNCHANGED << now, tz, exists, files, stations, data, data_file_path,
                    runs, regvars >>

\* download1 with a 200 response holding the texts of batch
Download(batch) ==
    /\ result \notin {"KeyError", "AttributeError"}
    /\ downloads < MaxDownloads
    /\ LET dec == DecodeAll(batch, 1, stations, tz, <<>>)
       IN  /\ response' = batch
           /\ status' = HttpOk
           /\ IF dec.raised
              THEN /\ data' = data \o dec.rows
                   /\ result' = "KeyError"
                   /\ warning' = {}
                   /\ UNCHANGED << exists, files, data_file_path >>
              ELSE LET d == dump_data(data \o dec.rows, data_file_path, exists, files, tz)
                   IN  /\ data' = d.data
                       /\ data_file_path' = d.path
                       /\ exists' = d.exists
                       /\ files' = d.files
                       /\ warning' = d.warning
                       /\ result' = "True"
    /\ downloads' = downloads + 1
    /\ UNCHANGED << now, tz, stations, runs, regvars >>

\* the clock advances
Tick ==
    /\ now < LastSlot
    /\ now' = now + 1
    /\ UNCHANGED << tz, exists, files, stations, data, data_file_path, result,
                    warning, response, status, downloads, runs, regvars >>

\* The state after the first construction, on an empty target directory.
Init ==
    /\ now \in Slots
    /\ tz \in TzOffsets
    /\ exists = {UtcNowDate(now)}
    /\ files = [d \in Days |-> <<>>]
    /\ stations \in Registries
    /\ data = <<>>
    /\ data_file_path = UtcNowDate(now)
    /\ result = "constructed"
    /\ warning = {}
    /\ response = <<>>
    /\ status = 0
    /\ downloads = 0
    /\ runs = 1
    /\ station_file = <<>>
    /\ loaded = [done |-> FALSE, raised |-> FALSE, stations |-> <<>>]
    /\ coord = [axis |-> "none", degrees |-> 0, minutes |-> 0, letter |-> " ",
                text |-> <<>>]
    /\ decimal = {}

Next ==
    \/ \E reg \in Registries : Construct(reg)
    \/ \E code \in StatusCodes : DownloadFailed(code)
    \/ \E batch \in BatchesAt[now] : Download(batch)
    \/ Tick

Spec == Init /\ [][Next]_vars

\* ----------------------------------------------------- station registry
\* Text is a sequence of one-character strings, so that len, indexing,
\* slicing, split and int act on it as they do in the code.  Decimal
\* degrees are kept in sixtieths of a degree: degree * 60 + minute stands
\* for degree + minute / 60.
RowWidth  == 84
MaxLines  == 4
MaxDegree == 11
MaxMinute == 3
MaxPad    == 1

DigitChars == << "0", "1", "2", "3", "4", "5", "6", "7", "8", "9" >>

Fill(c, n) == [i \in 1..n |-> c]

RECURSIVE Digits(_)
Digits(n) ==
    IF n < 10 THEN << DigitChars[n + 1] >>
    ELSE Digits(n \div 10) \o << DigitChars[(n % 10) + 1] >>

TwoDigits(n) == << DigitChars[(n \div 10) + 1], DigitChars[(n % 10) + 1] >>

\* A degree token, a blank, a two-digit minute token ending in a hemisphere
\* letter, with blanks before and after as a fixed-width column may hold.
CoordText(degrees, minutes, letter, lead, trail) ==
    Fill(" ", lead) \o Digits(degrees) \o << " " >> \o TwoDigits(minutes)
        \o << letter >> \o Fill(" ", trail)

IsSpace(c) == c \in {" ", "\n"}

\* str.split(): the maximal runs of non-blank characters, in order
split(s) ==
    LET starts   == { i \in 1..Len(s) :
                        ~IsSpace(s[i]) /\ (i = 1 \/ IsSpace(s[i - 1])) }
        EndOf(i) == CHOOSE j \in i..Len(s) :
                        /\ \A k \in i..j : ~IsSpace(s[k])
                        /\ j = Len(s) \/ IsSpace(s[j + 1])
        Nth(n)   == CHOOSE i \in starts :
                        Cardinality({ x \in starts : x < i }) = n - 1
    IN  [n \in 1..Cardinality(starts) |-> SubSeq(s, Nth(n), EndOf(Nth(n)))]

IsDigit(c) == \E d \in 1..10 : DigitChars[d] = c
DigitValue(c) == (CHOOSE d \in 1..10 : DigitChars[d] = c) - 1

\* int(token) raises ValueError unless the token is a run of digits
IsInt(tok) == tok # <<>> /\ \A i \in 1..Len(tok) : IsDigit(tok[i])

RECURSIVE int(_)
int(tok) ==
    IF Len(tok) = 1 THEN DigitValue(tok[1])
    ELSE int(SubSeq(tok, 1, Len(tok) - 1)) * 10 + DigitValue(tok[Len(tok)])

\* token[:-1]
ButLast(tok) == SubSeq(tok, 1, Len(tok) - 1)

\* _lat and _lng return a value exactly when the string unpacks into two
\* tokens and both int() calls succeed.
Parses(s) ==
    LET parts == split(s)
    IN  Len(parts) = 2 /\ IsInt(parts[1]) /\ IsInt(ButLast(parts[2]))

\* _lng
lng(lngstr) ==
    LET parts       == split(lngstr)
        degree      == parts[1]
        minute      == parts[2]
        abs_decimal == int(degree) * 60 + int(ButLast(minute))
    IN  IF lngstr[Len(lngstr)] = "W" THEN 0 - abs_decimal ELSE abs_decimal

\* _lat
lat(latstr) ==
    LET parts       == split(latstr)
        degree      == parts[1]
        minute      == parts[2]
        abs_decimal == int(degree) * 60 + int(ButLast(minute))
    IN  IF latstr[Len(latstr)] = "S" THEN 0 - abs_decimal ELSE abs_decimal

\* A line filter that forgets the width test.
skipped_NoWidthTest(line) ==
    \/ split(line) = <<>>
    \/ line[1] = "!"

\* the three tests of fetch_stations that make it pass over a line
skipped(line) ==
    \/ split(line) = <<>>
    \/ line[1] = "!"
    \/ Len(line) # RowWidth

\* the fields of Station the registry's users read, cut from fixed columns
Station(line) ==
    [code4     |-> SubSeq(line, 21, 24),
     latitude  |-> lat(SubSeq(line, 40, 46)),
     longitude |-> lng(SubSeq(line, 48, 54)),
     raw       |-> line]

\* the loop of fetch_stations: a later row of the same code4 replaces an
\* earlier one; a ValueError of _lat or _lng ends the call with no mapping.
RECURSIVE fetch_loop(_, _, _)
fetch_loop(lines, i, acc) ==
    IF i > Len(lines)
    THEN [done |-> TRUE, raised |-> FALSE, stations |-> acc]
    ELSE LET line == lines[i]
         IN  IF skipped(line)
             THEN fetch_loop(lines, i + 1, acc)
             ELSE IF Parses(SubSeq(line, 40, 46)) /\ Parses(SubSeq(line, 48, 54))
                  THEN fetch_loop(lines, i + 1,
                                  (SubSeq(line, 21, 24) :> Station(line)) @@ acc)
                  ELSE [done |-> TRUE, raised |-> TRUE, stations |-> <<>>]

\* fetch_stations on the lines f.readlines() gave
fetch_stations(lines) == fetch_loop(lines, 1, <<>>)

\* ------------------------------------------------------ registry inputs
\* A row of the fixed-width format, 83 characters before its newline.
Row(code4, latfield, lngfield) ==
    Fill("S", 2) \o << " " >> \o Fill("n", 16) \o << " " >> \o code4
        \o Fill(" ", 15) \o latfield \o << " " >> \o lngfield \o << " " >>
        \o Fill("9", 4) \o Fill(" ", 22) \o << "U", "S" >>

HeaderLine  == Fill("H", 78) \o << "\n" >>
CommentLine == << "!" >> \o Fill("c", 5) \o << "\n" >>
WideComment == << "!" >> \o Fill("c", 82) \o << "\n" >>
BlankLine   == << "\n" >>
WideBlank   == Fill(" ", 83) \o << "\n" >>
RowKA       == Row(<< "K", "A", "A", "A" >>, CoordText(33, 56, "S", 0, 1),
                   CoordText(118, 24, "W", 0, 0)) \o << "\n" >>
RowKA2      == Row(<< "K", "A", "A", "A" >>, CoordText(5, 7, "N", 1, 1),
                   CoordText(18, 4, "E", 1, 0)) \o << "\n" >>
RowKB       == Row(<< "K", "B", "B", "B" >>, CoordText(40, 26, "N", 0, 1),
                   CoordText(173, 59, "W", 0, 0)) \o << "\n" >>
LongRow     == Row(<< "K", "B", "B", "B" >>, CoordText(40, 26, "N", 0, 1),
                   CoordText(173, 59, "W", 0, 0)) \o << "X", "\n" >>
WideHeader  == Fill("H", 83) \o << "\n" >>

RegistryLines == { HeaderLine, CommentLine, WideComment, BlankLine, WideBlank,
                   RowKA, RowKA2, RowKB, LongRow, WideHeader }

RegistryFiles == SeqsUpTo(RegistryLines, MaxLines)

Coords ==
    { [axis |-> a, degrees |-> d, minutes |-> m, letter |-> h,
       text |-> CoordText(d, m, h, lead, trail)] :
        a \in {"lat", "lng"}, d \in 0..MaxDegree, m \in 0..MaxMinute,
        h \in {"N", "S", "E", "W"}, lead \in 0..MaxPad, trail \in 0..MaxPad }

\* the store before any construction
NoStore ==
    /\ now = FirstSlot
    /\ tz = 0
    /\ exists = {}
    /\ files = [d \in Days |-> <<>>]
    /\ stations = <<>>
    /\ data = <<>>
    /\ data_file_path = 0
    /\ result = "none"
    /\ warning = {}
    /\ response = <<>>
    /\ status = 0
    /\ downloads = 0
    /\ runs = 0

storevars == << now, tz, exists, files, stations, data, data_file_path, result,
                warning, response, status, downloads, runs >>

\* ---- fetch_stations applied to every registry file of the bounds
FetchStations ==
    /\ ~loaded.done
    /\ loaded' = fetch_stations(station_file)
    /\ UNCHANGED << storevars, station_file, coord, decimal >>

InitRegistry ==
    /\ NoStore
    /\ station_file \in RegistryFiles
    /\ loaded = [done |-> FALSE, raised |-> FALSE, stations |-> <<>>]
    /\ coord = [axis |-> "none", degrees |-> 0, minutes |-> 0, letter |-> " ",
                text |-> <<>>]
    /\ decimal = {}

NextRegistry == FetchStations

SpecRegistry == InitRegistry /\ [][NextRegistry]_vars

\* ---- _lat and _lng applied to every coordinate string of the bounds
ParseLat ==
    /\ coord.axis = "lat"
    /\ decimal = {}
    /\ decimal' = { lat(coord.text) }
    /\ UNCHANGED << storevars, station_file, loaded, coord >>

ParseLng ==
    /\ coord.axis = "lng"
    /\ decimal = {}
    /\ decimal' = { lng(coord.text) }
    /\ UNCHANGED << storevars, station_file, loaded, coord >>

InitCoord ==
    /\ NoStore
    /\ station_file = <<>>
    /\ loaded = [done |-> FALSE, raised |-> FALSE, stations |-> <<>>]
    /\ coord \in { c \in Coords : IF c.axis = "lat" THEN c.letter \in {"N", "S"}
                                                   ELSE c.letter \in {"E", "W"} }
    /\ decimal = {}

NextCoord == ParseLat \/ ParseLng

SpecCoord == InitCoord /\ [][NextCoord]_vars

TypeOK ==
    /\ now \in Slots
    /\ data_file_path \in exists
    /\ exists \subseteq Days

\* ------------------------------------------------------- claim vocabulary
\* The UTC calendar day of a unix timestamp.
UtcDate(ts) == ts \div DayLen

Range(s) == { s[i] : i \in 1..Len(s) }

\* The rows the last download1 call appended to the working set.
AppendedBy(resp) == DecodeAll(resp, 1, stations, tz, <<>>).rows

\* A download1 step that reached and completed its flush.
FlushStep == downloads' = downloads + 1 /\ result' = "True"

\* The working set that step flushed: self.data with the appended rows.
Flushed == data \o AppendedBy(response')

\* Its deduplicated form and the date keys it spans.
FlushedDedup == deduplicate_data(Flushed)
FlushedDates == DatesOf(FlushedDedup, tz)

\* The CSV rows deduplicating and writing a list of rows gives.
Written(rows) == Range(WriteRows(deduplicate_data(rows)))

\* C1: after every successful flush, every row of every partition file has the
\* date key (derived from its timestamp as the flush derives it) that the
\* file's name encodes.
C1_RowsInOwnDayFile ==
    result = "True" =>
        \A d \in exists : \A i \in 1..Len(files[d]) :
            FromTimestampDate(files[d][i].timestamp, tz) = d

\* C2: when the deduplicated working set of a flush spans more than one date
\* key, then for every date key but the latest the partition file afterwards
\* holds the deduplicated union of its prior rows and the working set's rows
\* of that day.
C2_EveryOlderDayMerged ==
    [][ (FlushStep /\ Cardinality(FlushedDates) > 1) =>
          \A d \in FlushedDates \ {MaxOf(FlushedDates)} :
              /\ d \in exists'
              /\ Range(files'[d]) =
                    Written(load_data_from_file(files, d)
                                \o DataByDate(FlushedDedup, tz, d)) ]_vars

\* C6: no partition file ever holds two rows with the same rawmetar (files
\* change only in a flush, so this is the state after every flush).
C6_NoDuplicateRawmetar ==
    \A d \in exists : \A i, j \in 1..Len(files[d]) :
        files[d][i].rawmetar = files[d][j].rawmetar => i = j

\* C6 witness: a second run's drift flush has merged a re-fetched report into
\* an older day's file that already held it, beside another row.
C6_Witness ==
    /\ result = "True"
    /\ runs = 2
    /\ warning # {}
    /\ LET d == MinOf(warning)
       IN  /\ d # data_file_path
           /\ Len(files[d]) >= 2
           /\ \E i \in 1..Len(response) : \E k \in 1..Len(files[d]) :
                 /\ files[d][k].rawmetar = response[i]
                 /\ files[d][k].name # stations[response[i].station]

\* C3: of the rows of a flushed working set that share a rawmetar, exactly one
\* is on disk after the flush, and it is the first of them in the working set.
C3_FirstDuplicateKept ==
    [][ FlushStep =>
          \A i \in 1..Len(Flushed) :
              LET same   == { k \in 1..Len(Flushed) :
                                Flushed[k].rawmetar = Flushed[i].rawmetar }
                  first  == MinOf(same)
                  onDisk == UNION { Range(files'[d]) : d \in exists' }
              IN  Cardinality(same) >= 2 =>
                      { WriteRow(Flushed[k]) : k \in same } \cap onDisk
                          = { WriteRow(Flushed[first]) } ]_vars

\* C4: with day D active, appending one row of day D and one of day D+1 and
\* flushing leaves file D with the D row merged (deduplicated) into its prior
\* rows, file D+1 with exactly the D+1 row, and D+1 active.
C4_CrossMidnight ==
    [][ (/\ FlushStep
         /\ Len(AppendedBy(response')) = 2
         /\ \E i, j \in 1..2 :
               /\ RowDate(AppendedBy(response')[i], tz) = data_file_path
               /\ RowDate(AppendedBy(response')[j], tz) = data_file_path + 1)
        =>
        LET D   == data_file_path
            new == AppendedBy(response')
            a   == CHOOSE r \in Range(new) : RowDate(r, tz) = D
            b   == CHOOSE r \in Range(new) : RowDate(r, tz) = D + 1
        IN  /\ Range(files'[D]) = Written(load_data_from_file(files, D) \o <<a>>)
            /\ Range(files'[D + 1]) = { WriteRow(b) }
            /\ data_file_path' = D + 1
            /\ D + 1 \in exists' ]_vars

\* C5: after a flush, flushing again with nothing appended, and flushing again
\* after appending the same rows once more, both leave every partition file
\* as the first flush left it.
C5_FlushIdempotent ==
    result = "True" =>
        LET again == dump_data(data, data_file_path, exists, files, tz)
            re    == dump_data(data \o AppendedBy(response), data_file_path,
                               exists, files, tz)
        IN  /\ again.files = files /\ again.exists = exists
            /\ re.files = files /\ re.exists = exists

\* C7: a flush whose working set spans the days D and D+1 removes no record
\* that was in file D or in file D+1 before it.  A record is identified by its
\* rawmetar, and only the records filed under their own day are looked at, so
\* that a violation is a lost observation and not a moved or rewritten row.
C7_NoPersistedRowLost ==
    [][ (/\ FlushStep
         /\ Cardinality(FlushedDates) = 2
         /\ MaxOf(FlushedDates) = MinOf(FlushedDates) + 1)
        =>
        \A d \in FlushedDates : \A k \in 1..Len(files[d]) :
            FromTimestampDate(files[d][k].timestamp, tz) = d =>
                \E n \in 1..Len(files'[d]) :
                    files'[d][n].rawmetar = files[d][k].rawmetar ]_vars

\* C8: the date key a flush groups a row under is the UTC calendar day of the
\* row's unix timestamp, whatever the host's offset (the convention that
\* UtcNowDate, which names the initial partition, follows).
C8_DateKeyIsUtcDay ==
    result = "True" =>
        \A i \in 1..Len(data) :
            FromTimestampDate(data[i].timestamp, tz) = UtcDate(data[i].timestamp)

\* The texts of the last response that download1's loop got to decode.
Reached(i) ==
    \A j \in 1..(i - 1) :
        fetch_data_from_raw_metar(response[j], stations, tz).kind # "KeyError"

\* C9: decoding a report that lacks one of the six required fields returns
\* None and raises nothing, whether or not its station is registered; a report
\* with all six is not rejected.
C9_ValidityGate ==
    \A i \in 1..Len(response) :
        Reached(i) =>
            LET kind == fetch_data_from_raw_metar(response[i], stations, tz).kind
            IN  IF metar_valid(response[i]) THEN kind # "None" ELSE kind = "None"

\* C10: when a response holds a report that passes the validity gate and whose
\* station is not in the registry, download1 ends in the lookup error and no
\* flush happens: no partition file changes.
C10_UnknownStationFatal ==
    [][ (/\ downloads' = downloads + 1
         /\ \E i \in 1..Len(response') :
               /\ metar_valid(response'[i])
               /\ response'[i].station \notin DOMAIN stations)
        =>
        /\ result' = "KeyError"
        /\ files' = files
        /\ exists' = exists
        /\ data_file_path' = data_file_path ]_vars

\* C10 witness: the lookup raised on the second text of a response, after the
\* first was appended in memory, while the disk held an earlier flush.
C10_Witness ==
    /\ result = "KeyError"
    /\ Len(response) = 2
    /\ metar_valid(response[2])
    /\ response[2].station \notin DOMAIN stations
    /\ Len(data) > 0
    /\ data[Len(data)].rawmetar = response[1]
    /\ Len(files[data_file_path]) > 0
    /\ \A k \in 1..Len(files[data_file_path]) :
           files[data_file_path][k].rawmetar # response[1]
\* ---------------------------------------------------------------------
\* C11: a download1 call whose response is not a success returns False and
\* leaves the store as it was: the working set, the current partition path
\* and every file on disk are the same after the call, and nothing is
\* flushed or warned about.
C11_FailedFetchLeavesStore ==
    [][ (downloads' = downloads + 1 /\ status' # HttpOk)
        => /\ result' = "False"
           /\ data' = data
           /\ data_file_path' = data_file_path
           /\ files' = files
           /\ exists' = exists
           /\ warning' = {} ]_vars

\* A failed call on a store that holds rows in memory and in two files.
C11_Witness ==
    /\ result = "False"
    /\ status # HttpOk
    /\ status # 0
    /\ data # <<>>
    /\ files[data_file_path] # <<>>
    /\ \E d \in exists \ {data_file_path} : files[d] # <<>>

NoTwoWithSameRawmetar(rows) ==
    \A i, j \in 1..Len(rows) : rows[i].rawmetar = rows[j].rawmetar => i = j

\* ---------------------------------------------------------------------
\* C12: when the deduplicated working set spans exactly one date key, the
\* flush writes that whole set to the current partition file in place of
\* what the file held, keeps the working set, and changes neither the
\* current partition path nor any other partition file.
C12_SingleDayFlushFrame ==
    [][ (FlushStep /\ Cardinality(FlushedDates) = 1)
        => /\ files'[data_file_path] = WriteRows(FlushedDedup)
           /\ data' = FlushedDedup
           /\ data_file_path' = data_file_path
           /\ exists' = exists
           /\ \A d \in Days \ {data_file_path} : files'[d] = files[d] ]_vars

\* A single-day flush over a file that already held a row (the first row
\* of the working set was loaded from it), next to another partition file
\* that holds rows.
C12_Witness ==
    /\ result = "True"
    /\ warning = {}
    /\ Len(response) >= 1
    /\ Len(files[data_file_path]) >= 2
    /\ data[1].fmt = "str"
    /\ \E d \in exists \ {data_file_path} : files[d] # <<>>

\* ---------------------------------------------------------------------
\* C13: after a flush whose deduplicated working set spans several date
\* keys, the current partition path is the file of the latest of them, that
\* file exists, and the working set holds exactly the deduplicated rows of
\* that latest date and no row of another day.
C13_DriftMovesToLatestDay ==
    [][ (FlushStep /\ Cardinality(FlushedDates) > 1)
        => /\ data_file_path' \in FlushedDates
           /\ \A d \in FlushedDates : d <= data_file_path'
           /\ data_file_path' \in exists'
           /\ Range(data') = { r \in Range(FlushedDedup) :
                                   RowDate(r, tz) = data_file_path' }
           /\ NoTwoWithSameRawmetar(data') ]_vars

\* A drift flush over two dates that left the store on the later one, with
\* the earlier day's rows in their own file.
C13_Witness ==
    /\ result = "True"
    /\ Cardinality(warning) = 2
    /\ data # <<>>
    /\ \E d \in warning : d < data_file_path /\ files[d] # <<>>

\* ---------------------------------------------------------------------
\* C14: a download1 call that reaches its flush warns exactly when the
\* deduplicated working set spans more than one date key, the warning
\* names those dates, and the flush still completes: the call returns True
\* with the working set written to the current partition file.  A
\* single-day flush warns about nothing.
C14_WarningIffDrift ==
    [][ (downloads' = downloads + 1 /\ status' = HttpOk /\ result' # "KeyError")
        => /\ result' = "True"
           /\ warning' = IF Cardinality(FlushedDates) > 1 THEN FlushedDates ELSE {}
           /\ files'[data_file_path'] = WriteRows(data') ]_vars

\* A flush that warned about three dates and returned True.
C14_Witness ==
    /\ result = "True"
    /\ status = HttpOk
    /\ Cardinality(warning) = 3

\* ---------------------------------------------------------------------
\* C17: after every flush that completed, single-day or drift, the records
\* in the file at the current partition path are the records of the
\* working set, and no two records of the working set have the same
\* rawmetar.
C17_FileEqualsWorkingSet ==
    (result = "True")
        => /\ Range(files[data_file_path]) = Range(WriteRows(data))
           /\ Len(files[data_file_path]) = Len(data)
           /\ NoTwoWithSameRawmetar(data)

\* A drift flush that kept two rows of the latest day.
C17_Witness ==
    /\ result = "True"
    /\ Cardinality(warning) >= 2
    /\ Len(data) = 2
    /\ Len(files[data_file_path]) = 2

\* ---------------------------------------------------------------------
\* C15: fetch_stations treats a line as a station row exactly when the
\* line as read is 84 characters long, is not blank and does not start
\* with "!"; every other line is passed over without error, so an error
\* can only come from a station row, and the mapping's keys are the
\* 4-letter codes of the station rows.  A file of one header line, one
\* comment line, one blank line and one station row gives one entry.
StationRows ==
    { i \in 1..Len(station_file) :
        /\ Len(station_file[i]) = RowWidth
        /\ \E j \in 1..Len(station_file[i]) : ~IsSpace(station_file[i][j])
        /\ station_file[i][1] # "!" }

C16_SignFollowsHemisphere ==
    decimal # {}
        => LET magnitude == coord.degrees * 60 + coord.minutes
           IN  decimal = { IF coord.letter \in {"S", "W"}
                           THEN 0 - magnitude ELSE magnitude }

\* ---------------------------------------------------------------------
\* C18: constructing a store changes no record of a partition file that
\* exists; when today's file exists the working set after construction
\* holds exactly its records, and when it does not the file is created
\* empty and the working set is empty.  A flush right after construction
\* that appends nothing leaves the disk as it was, and the records an
\* earlier run flushed into today's file are still on disk after the
\* first flush of a later run constructed on the same day.
C18_ConstructionKeepsRecords ==
    [][ /\ (runs' = runs + 1)
            => LET today == UtcNowDate(now)
               IN  /\ \A d \in exists : files'[d] = files[d]
                   /\ exists' = exists \cup {today}
                   /\ data_file_path' = today
                   /\ today \in exists => WriteRows(data') = files[today]
                   /\ today \notin exists => files'[today] = <<>> /\ data' = <<>>
        /\ (FlushStep /\ result = "constructed" /\ response' = <<>>)
            => files' = files
        /\ (FlushStep /\ result = "constructed"
                      /\ UtcNowDate(now) = data_file_path)
            => \A k \in 1..Len(files[data_file_path]) :
                   \E d \in Days : \E n \in 1..Len(files'[d]) :
                       files'[d][n].rawmetar = files[data_file_path][k].rawmetar
      ]_vars

====
